---------------------------- MODULE Spec2Model ----------------------------
(***************************************************************************)
(* A model of openapi-to-mcp: the OpenAPI adapter (adapter.ts), the        *)
(* request executor (apiCaller.ts) and the server start-up and tool        *)
(* handler (server.ts).                                                    *)
(*                                                                         *)
(* Representation.  A JavaScript string is a sequence of one-character     *)
(* strings.  An optional property is a sequence of length 0 (undefined)    *)
(* or 1.  A `$ref` object is a record with the single field ref.  A        *)
(* JavaScript value handed in as a tool argument is a tagged record:       *)
(* [str |-> chars], [num |-> digits] or [buf |-> bytes].                   *)
(***************************************************************************)
EXTENDS Integers, Sequences, FiniteSets, TLC

VARIABLES
    pc,          \* position of runServer / createServerInfrastructure
    apiSpec,     \* the document handed to the loader (what the file holds)
    apiBaseUrl,  \* server.ts: let apiBaseUrl (Option of string)
    sdkTools,    \* server.ts: const sdkTools, the Tool Definition table
    registered,  \* names registered with mcpServer.tool, in order
    exitCode,    \* Option of the status given to process.exit
    calls,       \* invocations suspended at `await axios(config)`
    last,        \* Option of the last step of an invocation: what it did
    sseTransports, \* server.ts: const sseTransports, as the set of its own keys
    sseConn,     \* the SSE connections opened so far, by session id
    lastPost,    \* Option of the last POST /messages: what it was answered
    schemaIn,    \* Option of the schema node handed to openApiTypeToZod
    descriptor   \* Option of the type descriptor it returned

serverVars == <<pc, apiSpec, apiBaseUrl, sdkTools, registered, exitCode, calls, last>>
sseVars == <<sseTransports, sseConn, lastPost>>
schemaVars == <<schemaIn, descriptor>>

vars == <<serverVars, sseVars, schemaVars>>

-----------------------------------------------------------------------------
(* Strings *)

None == <<>>
Some(x) == <<x>>
IsSome(o) == Len(o) > 0
Val(o) == o[1]

Range(s) == {s[i] : i \in DOMAIN s}

UpperChars == <<"A","B","C","D","E","F","G","H","I","J","K","L","M",
                "N","O","P","Q","R","S","T","U","V","W","X","Y","Z">>
LowerChars == <<"a","b","c","d","e","f","g","h","i","j","k","l","m",
                "n","o","p","q","r","s","t","u","v","w","x","y","z">>
DigitChars == <<"0","1","2","3","4","5","6","7","8","9">>

LowerOf == [c \in Range(UpperChars) |->
               LowerChars[CHOOSE i \in DOMAIN UpperChars : UpperChars[i] = c]]
UpperOf == [c \in Range(LowerChars) |->
               UpperChars[CHOOSE i \in DOMAIN LowerChars : LowerChars[i] = c]]

toLowerCaseChar(c) == IF c \in DOMAIN LowerOf THEN LowerOf[c] ELSE c
toUpperCaseChar(c) == IF c \in DOMAIN UpperOf THEN UpperOf[c] ELSE c

toLowerCase(s) == [i \in DOMAIN s |-> toLowerCaseChar(s[i])]
toUpperCase(s) == [i \in DOMAIN s |-> toUpperCaseChar(s[i])]

startsWith(s, p) == Len(s) >= Len(p) /\ SubSeq(s, 1, Len(p)) = p
endsWith(s, p) == Len(s) >= Len(p) /\ SubSeq(s, Len(s) - Len(p) + 1, Len(s)) = p

\* the positions at which p occurs in s
Occurrences(s, p) ==
    {i \in 1..(Len(s) - Len(p) + 1) : SubSeq(s, i, i + Len(p) - 1) = p}

includes(s, p) == Occurrences(s, p) # {}

Min(S) == CHOOSE x \in S : \A y \in S : x <= y

\* String.prototype.replace with a string pattern: the first occurrence only
replaceFirst(s, p, r) ==
    IF ~includes(s, p) THEN s
    ELSE LET i == Min(Occurrences(s, p))
         IN SubSeq(s, 1, i - 1) \o r \o SubSeq(s, i + Len(p), Len(s))

RECURSIVE Concat(_)
Concat(ss) == IF ss = <<>> THEN <<>> ELSE Head(ss) \o Concat(Tail(ss))

RECURSIVE SelectSeqOf(_, _)
\* the subsequence of s of the elements that are in the set S
SelectSeqOf(s, S) ==
    IF s = <<>> THEN <<>>
    ELSE (IF Head(s) \in S THEN <<Head(s)>> ELSE <<>>) \o SelectSeqOf(Tail(s), S)

\* string constants of the source
S_get == <<"g","e","t">>
S_put == <<"p","u","t">>
S_post == <<"p","o","s","t">>
S_delete == <<"d","e","l","e","t","e">>
S_options == <<"o","p","t","i","o","n","s">>
S_head == <<"h","e","a","d">>
S_patch == <<"p","a","t","c","h">>
S_trace == <<"t","r","a","c","e">>
S_parameters == <<"p","a","r","a","m","e","t","e","r","s">>
S_default == <<"d","e","f","a","u","l","t">>
S_requestBody == <<"r","e","q","u","e","s","t","B","o","d","y">>
S_Accept == <<"A","c","c","e","p","t">>
S_ContentType == <<"C","o","n","t","e","n","t","-","T","y","p","e">>
S_applicationJson ==
    <<"a","p","p","l","i","c","a","t","i","o","n","/","j","s","o","n">>
S_octetStream ==
    <<"a","p","p","l","i","c","a","t","i","o","n","/",
      "o","c","t","e","t","-","s","t","r","e","a","m">>
S_json == <<"j","s","o","n">>
S_anyAny == <<"*","/","*">>
S_http == <<"h","t","t","p">>
S_https == <<"h","t","t","p","s">>

\* OpenAPIV3.HttpMethods
HttpMethods ==
    {S_get, S_put, S_post, S_delete, S_options, S_head, S_patch, S_trace}


-----------------------------------------------------------------------------
(* adapter.ts: generateFunctionName *)

\* the characters of the class [a-zA-Z0-9_]
IdentChars == Range(UpperChars) \cup Range(LowerChars) \cup Range(DigitChars) \cup {"_"}
\* the characters of the class [a-z0-9_]
LowerIdentChars == Range(LowerChars) \cup Range(DigitChars) \cup {"_"}

\* the replacement as it would be if the classes held the hyphen too
sanitize_KeepHyphen(s, keep) ==
    [i \in DOMAIN s |-> IF s[i] \in keep \cup {"-"} THEN s[i] ELSE "_"]

\* s.replace(/[^...]/g, '_') for the character class `keep`
sanitize(s, keep) == [i \in DOMAIN s |-> IF s[i] \in keep THEN s[i] ELSE "_"]

RECURSIVE split(_, _)
\* s.split(sep) for a one-character separator: always at least one part
split(s, sep) ==
    IF \A i \in DOMAIN s : s[i] # sep THEN <<s>>
    ELSE LET i == Min({j \in DOMAIN s : s[j] = sep})
         IN <<SubSeq(s, 1, i - 1)>> \o split(SubSeq(s, i + 1, Len(s)), sep)

RECURSIVE filterNonEmpty(_)
\* parts.filter(p => p)
filterNonEmpty(parts) ==
    IF parts = <<>> THEN <<>>
    ELSE (IF Head(parts) # <<>> THEN <<Head(parts)>> ELSE <<>>)
         \o filterNonEmpty(Tail(parts))

RECURSIVE join(_, _)
\* parts.join(sep)
join(parts, sep) ==
    IF parts = <<>> THEN <<>>
    ELSE IF Len(parts) = 1 THEN Head(parts)
    ELSE Head(parts) \o sep \o join(Tail(parts), sep)

generateFunctionName(method, path, operation) ==
    IF IsSome(operation.operationId) /\ Val(operation.operationId) # <<>>
    THEN sanitize(Val(operation.operationId), IdentChars)
    ELSE LET pathParts ==
                 filterNonEmpty(split(sanitize(toLowerCase(path), LowerIdentChars), "_"))
         IN toLowerCase(method) \o <<"_">> \o join(pathParts, <<"_">>)

-----------------------------------------------------------------------------
(* adapter.ts: openApiTypeToZod.  A schema node is a record                *)
(*   [type, format, enum, items, properties, additionalProperties,         *)
(*    xBodyName], every field an Option; type and format hold the          *)
(*   OpenAPI words; items holds a schema or a [ref] record; properties a   *)
(*   sequence of [name, schema]; additionalProperties a [bool] record, a   *)
(*   schema or a [ref] record.                                             *)
(* A type descriptor is a record tagged by z.                              *)

IsRef(o) == "ref" \in DOMAIN o

ZAny == [z |-> "any"]

RECURSIVE openApiTypeToZod(_)
RECURSIVE zodShapeOfProperties(_)

\* the test of line 70 as it would be if every value counted, false included
additionalPropertiesTruthy_Any(ap) == IsSome(ap)

\* if (schema.additionalProperties): false and undefined are falsy, an
\* object (a schema, the empty one too, or a $ref object) and true are truthy
additionalPropertiesTruthy(ap) ==
    IsSome(ap) /\ ~("bool" \in DOMAIN Val(ap) /\ ~Val(ap).bool)

\* the loop as it would be if one $ref among the properties made all of them any
zodShapeOfProperties_AllAny(props) ==
    IF \E i \in DOMAIN props : IsRef(props[i].schema)
    THEN [i \in DOMAIN props |-> [name |-> props[i].name, zod |-> ZAny]]
    ELSE [i \in DOMAIN props |->
             [name |-> props[i].name, zod |-> openApiTypeToZod(Some(props[i].schema))]]

\* the loop over schema.properties of case 'object'
zodShapeOfProperties(props) ==
    IF props = <<>> THEN <<>>
    ELSE LET propSchema == Head(props).schema
         IN <<[name |-> Head(props).name,
               zod |-> IF IsRef(propSchema) THEN ZAny
                      ELSE openApiTypeToZod(Some(propSchema))]>>
            \o zodShapeOfProperties(Tail(props))

\* the argument is an Option: None is the absent schema
openApiTypeToZod(schemaOpt) ==
    IF ~IsSome(schemaOpt) THEN ZAny
    ELSE LET schema == Val(schemaOpt)
             type == IF "type" \in DOMAIN schema /\ IsSome(schema.type)
                     THEN Val(schema.type) ELSE "undefined"
             format == IF IsSome(schema.format) THEN Val(schema.format) ELSE "undefined"
         IN CASE type = "string" ->
                  IF IsSome(schema.enum) THEN [z |-> "enum", values |-> Val(schema.enum)]
                  ELSE IF format = "date-time" THEN [z |-> "string.datetime"]
                  ELSE IF format = "date" THEN [z |-> "string.date"]
                  ELSE IF format = "byte" THEN [z |-> "string.base64"]
                  ELSE IF format = "binary" THEN ZAny
                  ELSE [z |-> "string"]
              [] type = "integer" -> [z |-> "number.int"]
              [] type = "number" -> [z |-> "number"]
              [] type = "boolean" -> [z |-> "boolean"]
              [] type = "array" ->
                  IF IsSome(schema.items)
                  THEN [z |-> "array",
                        element |-> IF IsRef(Val(schema.items)) THEN ZAny
                                    ELSE openApiTypeToZod(schema.items)]
                  ELSE [z |-> "array", element |-> ZAny]
              [] type = "object" ->
                  IF IsSome(schema.properties)
                  THEN LET shape == zodShapeOfProperties(Val(schema.properties))
                           ap == schema.additionalProperties
                       IN IF IsSome(ap) /\ "bool" \in DOMAIN Val(ap) /\ Val(ap).bool
                          THEN [z |-> "object", shape |-> shape, catchall |-> Some(ZAny)]
                          ELSE IF IsSome(ap) /\ "bool" \notin DOMAIN Val(ap) /\ ~IsRef(Val(ap))
                          THEN [z |-> "object", shape |-> shape,
                                catchall |-> Some(openApiTypeToZod(ap))]
                          ELSE [z |-> "object", shape |-> shape, catchall |-> None]
                  ELSE IF additionalPropertiesTruthy(schema.additionalProperties)
                  THEN [z |-> "record", key |-> [z |-> "string"], value |-> ZAny]
                  ELSE [z |-> "object", shape |-> <<>>, catchall |-> None]
              [] OTHER -> ZAny

\* zodType.optional()
zodOptional(zodType) == [z |-> "optional", inner |-> zodType]
\* zodType.describe(text)
zodDescribe(zodType, text) == [z |-> "described", inner |-> zodType, text |-> text]


-----------------------------------------------------------------------------
(* adapter.ts: parameters.  An OpenAPI parameter object is a record        *)
(*   [name, in, required, description, schema] (the last three Options)    *)
(* or a [ref] record.  A Parameter-Spec (MCPParameter) is a record         *)
(*   [name, description, type, required, schema, in].                      *)
(* A zodShape is a function from parameter names to type descriptors.      *)

EmptyShape == [n \in {} |-> ZAny]

\* zodShape[name] = zodType
shapeSet(zodShape, name, zodType) == (name :> zodType) @@ zodShape

\* the body of the forEach of extractAndBuildZodShape for one parameter:
\* acc is [params, zodShape]
extractOne(acc, param) ==
    IF IsRef(param) THEN acc
    ELSE LET schema == param.schema
             t0 == openApiTypeToZod(schema)
             t1 == IF ~(IsSome(param.required) /\ Val(param.required))
                   THEN zodOptional(t0) ELSE t0
             zodType == IF IsSome(param.description) /\ Val(param.description) # <<>>
                        THEN zodDescribe(t1, Val(param.description)) ELSE t1
         IN [zodShape |-> shapeSet(acc.zodShape, param.name, zodType),
             params |-> Append(acc.params,
                 [name |-> param.name,
                  description |-> param.description,
                  type |-> IF IsSome(schema) /\ IsSome(Val(schema).type)
                           THEN Val(Val(schema).type) ELSE "any",
                  required |-> IsSome(param.required) /\ Val(param.required),
                  schema |-> schema,
                  in |-> param.in])]

RECURSIVE extractLoop(_, _)
extractLoop(acc, openapiParams) ==
    IF openapiParams = <<>> THEN acc
    ELSE extractLoop(extractOne(acc, Head(openapiParams)), Tail(openapiParams))

\* returns [params |-> the MCPParameter list, zodShape |-> the shape as it leaves]
extractAndBuildZodShape(openapiParams, zodShape) ==
    IF ~IsSome(openapiParams) THEN [params |-> <<>>, zodShape |-> zodShape]
    ELSE extractLoop([params |-> <<>>, zodShape |-> zodShape], Val(openapiParams))

\* requestBody.content?.['application/json']?.schema ||
\* requestBody.content?.[Object.keys(requestBody.content)[0]]?.schema
\* content is an Option of a sequence of [ctype, schema], schema an Option
contentSchemaOf(requestBody) ==
    IF ~IsSome(requestBody.content) THEN None
    ELSE LET content == Val(requestBody.content)
             json == {i \in DOMAIN content : content[i].ctype = S_applicationJson}
         IN IF json # {} /\ IsSome(content[Min(json)].schema)
            THEN content[Min(json)].schema
            ELSE IF content # <<>> THEN content[1].schema
            ELSE None

\* a request body object is [required, description, content] or a [ref] record
extractRequestBodyAndBuildZodShape(requestBody, zodShape) ==
    IF ~IsSome(requestBody) \/ IsRef(Val(requestBody))
    THEN [params |-> <<>>, zodShape |-> zodShape]
    ELSE LET rb == Val(requestBody)
             contentSchema == contentSchemaOf(rb)
         IN IF ~IsSome(contentSchema) \/ IsRef(Val(contentSchema))
            THEN [params |-> <<>>, zodShape |-> zodShape]
            ELSE LET cs == Val(contentSchema)
                     bodyParamName == IF IsSome(cs.xBodyName) /\ Val(cs.xBodyName) # <<>>
                                      THEN Val(cs.xBodyName) ELSE S_requestBody
                     t0 == openApiTypeToZod(contentSchema)
                     t1 == IF ~(IsSome(rb.required) /\ Val(rb.required))
                           THEN zodOptional(t0) ELSE t0
                     zodType == IF IsSome(rb.description) /\ Val(rb.description) # <<>>
                                THEN zodDescribe(t1, Val(rb.description)) ELSE t1
                 IN [zodShape |-> shapeSet(zodShape, bodyParamName, zodType),
                     params |-> <<[name |-> bodyParamName,
                                   description |->
                                       IF IsSome(rb.description) /\ Val(rb.description) # <<>>
                                       THEN rb.description
                                       ELSE Some(<<"T","h","e"," ","r","e","q","u","e","s","t",
                                                   " ","b","o","d","y",".">>),
                                   type |-> IF IsSome(cs.type) THEN Val(cs.type) ELSE "object",
                                   required |-> IsSome(rb.required) /\ Val(rb.required),
                                   schema |-> contentSchema,
                                   in |-> "body"]>>]

\* mapSet as it would be if a name already in the Map kept its first value
mapSet_KeepFirst(values, p) ==
    IF \E i \in DOMAIN values : values[i].name = p.name THEN values
    ELSE Append(values, p)

\* mapSet as it would be if the parameters were collected in a plain list
mapSet_AlwaysAppend(values, p) == Append(values, p)

\* combinedParamsMap.set(p.name, p) on the Map kept as its list of values in
\* insertion order: an existing key keeps its place and takes the new value
mapSet(values, p) ==
    IF \E i \in DOMAIN values : values[i].name = p.name
    THEN [i \in DOMAIN values |-> IF values[i].name = p.name THEN p ELSE values[i]]
    ELSE Append(values, p)

RECURSIVE mapSetAll(_, _)
\* list.forEach(p => combinedParamsMap.set(p.name, p))
mapSetAll(values, list) ==
    IF list = <<>> THEN values
    ELSE mapSetAll(mapSet(values, Head(list)), Tail(list))


-----------------------------------------------------------------------------
(* adapter.ts: adaptOpenAPIToSdkTools.  A document is a record             *)
(*   [swagger, schemes, host, basePath, servers, paths]                    *)
(* paths an Option of the sequence of [path, item] in key order; a path    *)
(* item the sequence of its [key, value] entries in key order: the value   *)
(* of a verb key is an Option of an operation                              *)
(*   [operationId, summary, description, parameters, requestBody,          *)
(*    responses]                                                           *)
(* and the value of the key `parameters` is the parameter list.            *)

\* pathItem.parameters
pathItemParameters(pathItem) ==
    LET at == {i \in DOMAIN pathItem : pathItem[i].key = S_parameters}
    IN IF at = {} THEN None ELSE Some(pathItem[Min(at)].value)

\* getResponseContentKeys: responses is a sequence of [code, response], a
\* response [content |-> Option of the content types in key order] or a [ref]
getResponseContentKeys(operation, responseCode) ==
    IF ~IsSome(operation.responses) THEN <<>>
    ELSE LET responses == Val(operation.responses)
             at == {i \in DOMAIN responses : responses[i].code = responseCode}
         IN IF at = {} THEN <<>>
            ELSE LET responseObj == responses[Min(at)].response
                 IN IF IsRef(responseObj) \/ ~IsSome(responseObj.content) THEN <<>>
                    ELSE Val(responseObj.content)

RECURSIVE flatMapContentKeys(_, _)
flatMapContentKeys(operation, responses) ==
    IF responses = <<>> THEN <<>>
    ELSE (IF startsWith(Head(responses).code, <<"2">>)
          THEN getResponseContentKeys(operation, Head(responses).code) ELSE <<>>)
         \o flatMapContentKeys(operation, Tail(responses))

RECURSIVE dedupe(_)
\* [...new Set(list)]: the first appearance of each element, in order
dedupe(list) ==
    IF list = <<>> THEN <<>>
    ELSE LET init == dedupe(SubSeq(list, 1, Len(list) - 1))
             x == list[Len(list)]
         IN IF x \in Range(init) THEN init ELSE Append(init, x)

producesOf(operation) ==
    LET two == IF IsSome(operation.responses)
               THEN flatMapContentKeys(operation, Val(operation.responses)) ELSE <<>>
    IN dedupe(IF two = <<>> THEN getResponseContentKeys(operation, S_default) ELSE two)

consumesOf(operation) ==
    IF IsSome(operation.requestBody) /\ ~IsRef(Val(operation.requestBody))
       /\ IsSome(Val(operation.requestBody).content)
    THEN [i \in DOMAIN Val(Val(operation.requestBody).content) |->
              Val(Val(operation.requestBody).content)[i].ctype]
    ELSE <<>>

\* the merge of the three parameter lists through combinedParamsMap
combineParams(paramsFromPath, paramsFromOperation, paramsFromBody) ==
    mapSetAll(mapSetAll(mapSetAll(<<>>, paramsFromPath), paramsFromOperation),
              paramsFromBody)

\* the body of the inner loop for one operation: the tool it pushes
adaptOperation(path, pathItem, method, operation) ==
    LET fromPath == extractAndBuildZodShape(pathItemParameters(pathItem), EmptyShape)
        fromOperation == extractAndBuildZodShape(operation.parameters, fromPath.zodShape)
        fromBody == extractRequestBodyAndBuildZodShape(operation.requestBody,
                                                       fromOperation.zodShape)
        consumes == consumesOf(operation)
        produces == producesOf(operation)
    IN [name |-> generateFunctionName(method, path, operation),
        description |-> IF IsSome(operation.summary) /\ Val(operation.summary) # <<>>
                        THEN operation.summary ELSE operation.description,
        zodShape |-> fromBody.zodShape,
        originalOperation |->
            [method |-> toUpperCase(method),
             path |-> path,
             parameters |-> combineParams(fromPath.params, fromOperation.params,
                                          fromBody.params),
             consumes |-> IF Len(consumes) > 0 THEN Some(consumes) ELSE None,
             produces |-> IF Len(produces) > 0 THEN Some(produces) ELSE None]]

RECURSIVE adaptPathItem(_, _, _)
\* for (const method in pathItem): entries is the rest of the item's entries
adaptPathItem(path, pathItem, entries) ==
    IF entries = <<>> THEN <<>>
    ELSE (IF Head(entries).key \notin HttpMethods \/ ~IsSome(Head(entries).value)
          THEN <<>>
          ELSE <<adaptOperation(path, pathItem, Head(entries).key,
                                Val(Head(entries).value))>>)
         \o adaptPathItem(path, pathItem, Tail(entries))

RECURSIVE adaptPaths(_)
\* for (const path in apiSpec.paths)
adaptPaths(paths) ==
    IF paths = <<>> THEN <<>>
    ELSE adaptPathItem(Head(paths).path, Head(paths).item, Head(paths).item)
         \o adaptPaths(Tail(paths))

adaptOpenAPIToSdkTools(doc) ==
    IF ~IsSome(doc.paths) THEN <<>> ELSE adaptPaths(Val(doc.paths))


-----------------------------------------------------------------------------
(* apiCaller.ts: the JavaScript built-ins executeApiCall uses *)

JStr(chars) == [str |-> chars]
JNum(digits) == [num |-> digits]
JBuf(bytes) == [buf |-> bytes]
IsStr(v) == "str" \in DOMAIN v

\* String(value)
String(v) == IF IsStr(v) THEN v.str ELSE v.num

\* a lone surrogate code unit, which encodeURIComponent rejects
LoneSurrogate == "\\uD800"

\* the characters encodeURIComponent leaves as they are
UnreservedChars ==
    Range(UpperChars) \cup Range(LowerChars) \cup Range(DigitChars)
    \cup {"-", "_", ".", "!", "~", "*", "'", "(", ")"}

\* the percent-encoding of the other ASCII characters the model's strings hold
percentEncodeChar(c) ==
    CASE c = "/" -> <<"%","2","F">>
      [] c = " " -> <<"%","2","0">>
      [] c = "{" -> <<"%","7","B">>
      [] c = "}" -> <<"%","7","D">>
      [] c = "=" -> <<"%","3","D">>
      [] c = "+" -> <<"%","2","B">>
      [] c = "?" -> <<"%","3","F">>
      [] c = "#" -> <<"%","2","3">>
      [] c = "%" -> <<"%","2","5">>
      [] c = "&" -> <<"%","2","6">>
      [] c = ":" -> <<"%","3","A">>
      [] c = "$" -> <<"%","2","4">>

encodeURIComponentThrows(s) == LoneSurrogate \in Range(s)

RECURSIVE encodeURIComponent(_)
encodeURIComponent(s) ==
    IF s = <<>> THEN <<>>
    ELSE (IF Head(s) \in UnreservedChars THEN <<Head(s)>> ELSE percentEncodeChar(Head(s)))
         \o encodeURIComponent(Tail(s))

\* the base64 alphabet: the value of a character is its position minus one
Base64Chars ==
    UpperChars \o LowerChars \o DigitChars \o <<"+", "/">>

Base64Value == [c \in Range(Base64Chars) |->
                   (CHOOSE i \in DOMAIN Base64Chars : Base64Chars[i] = c) - 1]

\* unbase64: the sextet of a character, 64 or more for one outside the
\* alphabets ('-' and '_' are the URL-safe forms of '+' and '/')
unbase64(c) ==
    IF c = "-" THEN 62
    ELSE IF c = "_" THEN 63
    ELSE IF c \in DOMAIN Base64Value THEN Base64Value[c]
    ELSE 64

RECURSIVE base64Sextets(_)
\* the sextets the decoder reads: characters outside the alphabet are
\* skipped and '=' ends the input
base64Sextets(s) ==
    IF s = <<>> \/ Head(s) = "=" THEN <<>>
    ELSE (IF unbase64(Head(s)) < 64 THEN <<unbase64(Head(s))>> ELSE <<>>)
         \o base64Sextets(Tail(s))

RECURSIVE sextetsToBytes(_)
sextetsToBytes(x) ==
    IF Len(x) < 2 THEN <<>>
    ELSE IF Len(x) = 2 THEN <<x[1] * 4 + x[2] \div 16>>
    ELSE IF Len(x) = 3
    THEN <<x[1] * 4 + x[2] \div 16, (x[2] % 16) * 16 + x[3] \div 4>>
    ELSE <<x[1] * 4 + x[2] \div 16, (x[2] % 16) * 16 + x[3] \div 4, (x[3] % 4) * 64 + x[4]>>
         \o sextetsToBytes(SubSeq(x, 5, Len(x)))

\* Buffer.from(s, 'base64'): never throws
bufferFromBase64(s) == sextetsToBytes(base64Sextets(s))

RECURSIVE bytesToBase64(_)
\* Buffer.prototype.toString('base64')
bytesToBase64(b) ==
    IF b = <<>> THEN <<>>
    ELSE IF Len(b) = 1
    THEN <<Base64Chars[b[1] \div 4 + 1], Base64Chars[(b[1] % 4) * 16 + 1], "=", "=">>
    ELSE IF Len(b) = 2
    THEN <<Base64Chars[b[1] \div 4 + 1],
           Base64Chars[(b[1] % 4) * 16 + b[2] \div 16 + 1],
           Base64Chars[(b[2] % 16) * 4 + 1], "=">>
    ELSE <<Base64Chars[b[1] \div 4 + 1],
           Base64Chars[(b[1] % 4) * 16 + b[2] \div 16 + 1],
           Base64Chars[(b[2] % 16) * 4 + b[3] \div 64 + 1],
           Base64Chars[(b[3] % 64) + 1]>>
         \o bytesToBase64(SubSeq(b, 4, Len(b)))

\* a message is a sequence of parts: [lit] a literal of the source, [txt] an
\* interpolated string, [json] JSON.stringify of a value, [pretty]
\* JSON.stringify(value, null, 2), [len] a length in decimal
Lit(text) == [lit |-> text]
Txt(chars) == [txt |-> chars]


-----------------------------------------------------------------------------
(* apiCaller.ts: executeApiCall up to `await axios(config)`.               *)
(* mcpArgs is a function from the names that have a value to JavaScript    *)
(* values: a name outside its domain reads as undefined.                   *)

EmptyMap == [n \in {} |-> JStr(<<>>)]
mapPut(m, k, v) == (k :> v) @@ m

\* schema?.format === 'binary' || schema?.type === 'string' && schema?.format === 'binary'
isBinarySchema(schemaOpt) ==
    /\ IsSome(schemaOpt)
    /\ \/ Val(schemaOpt).format = Some("binary")
       \/ (Val(schemaOpt).type = Some("string") /\ Val(schemaOpt).format = Some("binary"))

\* the guard as it would be if a parameter without a value were passed over
valueUndefined_Skip(st, paramDef) == st

\* if (value === undefined): throw for a required parameter, else return
\* (st holds the locals [urlPath, queryParams, headers, requestBody, thrown])
valueUndefined(st, paramDef) ==
    IF paramDef.required
    THEN [st EXCEPT !.thrown =
             Some(<<Lit("Missing required parameter: "), Txt(paramDef.name)>>)]
    ELSE st

\* the body of parameters.forEach for one parameter
executeParam(st, paramDef, mcpArgs) ==
    IF IsSome(st.thrown) THEN st
    ELSE IF paramDef.name \notin DOMAIN mcpArgs
    THEN valueUndefined(st, paramDef)
    ELSE LET value == mcpArgs[paramDef.name]
         IN CASE paramDef.in = "path" ->
                  IF encodeURIComponentThrows(String(value))
                  THEN [st EXCEPT !.thrown = Some(<<Lit("URI malformed")>>)]
                  ELSE [st EXCEPT !.urlPath =
                           replaceFirst(st.urlPath, <<"{">> \o paramDef.name \o <<"}">>,
                                        encodeURIComponent(String(value)))]
              [] paramDef.in = "query" ->
                  [st EXCEPT !.queryParams = mapPut(st.queryParams, paramDef.name, value)]
              [] paramDef.in = "header" ->
                  [st EXCEPT !.headers = mapPut(st.headers, paramDef.name, String(value))]
              [] paramDef.in = "body" ->
                  IF isBinarySchema(paramDef.schema)
                  THEN [st EXCEPT
                           !.headers = mapPut(st.headers, S_ContentType, S_octetStream),
                           !.requestBody = IF IsStr(value)
                                           THEN Some(JBuf(bufferFromBase64(value.str)))
                                           ELSE Some(value)]
                  ELSE [st EXCEPT !.requestBody = Some(value)]
              [] OTHER -> st

RECURSIVE executeParams(_, _, _)
executeParams(st, parameters, mcpArgs) ==
    IF parameters = <<>> THEN st
    ELSE executeParams(executeParam(st, Head(parameters), mcpArgs), Tail(parameters), mcpArgs)

\* list?.[0] || fallback
firstOr(listOpt, fallback) ==
    IF IsSome(listOpt) /\ Val(listOpt) # <<>> /\ Val(listOpt)[1] # <<>>
    THEN Val(listOpt)[1] ELSE fallback

\* the locals before the forEach (lines 33-44)
initialLocals(operationDetails) ==
    LET accept == (S_Accept :> firstOr(operationDetails.produces, S_applicationJson))
        hasBody == \E i \in DOMAIN operationDetails.parameters :
                       operationDetails.parameters[i].in = "body"
    IN [urlPath |-> operationDetails.path,
        queryParams |-> EmptyMap,
        headers |-> IF hasBody
                    THEN mapPut(accept, S_ContentType,
                                firstOr(operationDetails.consumes, S_applicationJson))
                    ELSE accept,
        requestBody |-> None,
        thrown |-> None]

\* the join as it would be if the base URL were taken as it is
targetUrlOf_NoTrim(base, urlPath) ==
    base \o (IF startsWith(urlPath, <<"/">>) THEN urlPath ELSE <<"/">> \o urlPath)

\* lines 82-83
targetUrlOf(base, urlPath) ==
    LET baseUrl == IF endsWith(base, <<"/">>)
                   THEN SubSeq(base, 1, Len(base) - 1) ELSE base
    IN baseUrl \o (IF startsWith(urlPath, <<"/">>) THEN urlPath ELSE <<"/">> \o urlPath)

\* the mode as it would be if the wildcard were not looked for
responseTypeOf_JsonOnly(headers) ==
    IF S_Accept \notin DOMAIN headers \/ headers[S_Accept] = <<>>
       \/ includes(toLowerCase(headers[S_Accept]), S_json)
    THEN "json" ELSE "arraybuffer"

\* lines 85-87
responseTypeOf(headers) ==
    LET acceptHeader == IF S_Accept \in DOMAIN headers
                        THEN Some(toLowerCase(headers[S_Accept])) ELSE None
        isJsonExpected == \/ ~IsSome(acceptHeader)
                          \/ Val(acceptHeader) = <<>>
                          \/ includes(Val(acceptHeader), S_json)
                          \/ includes(Val(acceptHeader), S_anyAny)
    IN IF isJsonExpected THEN "json" ELSE "arraybuffer"

\* the call as it would be if it wrote the substituted path back
operationDetailsAfter_WriteBack(operationDetails, urlPath) ==
    [operationDetails EXCEPT !.path = urlPath]

\* what the call leaves in the object its caller handed in as operationDetails:
\* urlPath is the local the call works on after substitution
operationDetailsAfter(operationDetails, urlPath) == operationDetails

\* what the call leaves in the object its caller handed in as mcpArgs
mcpArgsAfter(mcpArgs, queryParams) == mcpArgs

\* the test as it would be if it looked for undefined only
baseUrlMissing_UndefinedOnly(base) == ~IsSome(base)

\* if (!apiBaseUrl) of line 29; base is an Option
baseUrlMissing(base) == ~IsSome(base) \/ Val(base) = <<>>

\* the call up to the await: thrown is the message of the Error thrown before
\* any request, config the request handed to axios
executeApiCall(base, operationDetails, mcpArgs) ==
    IF baseUrlMissing(base)
    THEN [thrown |-> Some(<<Lit("API base URL is not configured. Cannot execute API call.")>>),
          config |-> None,
          urlPath |-> None,
          operationDetails |-> operationDetails,
          mcpArgs |-> mcpArgs]
    ELSE LET st == executeParams(initialLocals(operationDetails),
                                 operationDetails.parameters, mcpArgs)
         IN [thrown |-> st.thrown,
             config |-> IF IsSome(st.thrown) THEN None
                        ELSE Some([method |-> operationDetails.method,
                                   url |-> targetUrlOf(Val(base), st.urlPath),
                                   headers |-> st.headers,
                                   params |-> st.queryParams,
                                   data |-> st.requestBody,
                                   responseType |-> responseTypeOf(st.headers)]),
             urlPath |-> IF IsSome(st.thrown) THEN None ELSE Some(st.urlPath),
             operationDetails |-> operationDetailsAfter(operationDetails, st.urlPath),
             mcpArgs |-> mcpArgsAfter(mcpArgs, st.queryParams)]


-----------------------------------------------------------------------------
(* apiCaller.ts: executeApiCall from the await on.  What axios settles     *)
(* with is a record [ok, response]: ok says whether the promise resolved,  *)
(* response is an Option of [status, contentType, data], status a decimal  *)
(* string, contentType an Option of the content-type header, data an       *)
(* Option of a JavaScript value: [str], [num], [buf], [json |-> the        *)
(* compact serialisation of a parsed object or array] or [circular] for a  *)
(* value that cannot be serialised.                                        *)

\* the test as it would be if it asked only whether there is a body
truthy_Present(dataOpt) == IsSome(dataOpt)

\* JavaScript truthiness of response.data
truthy(dataOpt) ==
    /\ IsSome(dataOpt)
    /\ ~(IsStr(Val(dataOpt)) /\ Val(dataOpt).str = <<>>)
    /\ ~("num" \in DOMAIN Val(dataOpt) /\ Val(dataOpt).num = <<"0">>)

\* JSON.stringify throws on the value (a circular structure, a BigInt)
stringifyThrows(value) == "circular" \in DOMAIN value

\* the detail string of the catch block (lines 115-128)
errorDetail(settled) ==
    LET hasResponse == IsSome(settled.response)
        status == IF hasResponse THEN Txt(Val(settled.response).status) ELSE Lit("N/A")
        contentType == IF hasResponse THEN Val(settled.response).contentType ELSE None
        responseData == IF hasResponse THEN Val(settled.response).data ELSE None
    IN <<Lit("Status: "), status>>
       \o (IF ~truthy(responseData) THEN <<>>
           ELSE IF IsSome(contentType) /\ Val(contentType) # <<>>
                   /\ ~includes(Val(contentType), S_json)
           THEN <<Lit(", Content-Type: "), Txt(Val(contentType))>>
           ELSE IF stringifyThrows(Val(responseData))
           THEN <<Lit(", Data: [Could not stringify response data]")>>
           ELSE <<Lit(", Data: "), [json |-> Val(responseData)]>>)

\* [thrown |-> the message of the Error thrown, result |-> the value returned]:
\* a returned value is [isBinary, contentType, data] or [value |-> response.data]
executeApiCallSettled(config, settled) ==
    IF settled.ok
    THEN [thrown |-> None,
          result |-> IF config.responseType = "arraybuffer"
                     THEN Some([isBinary |-> TRUE,
                                contentType |-> Val(settled.response).contentType,
                                data |-> bytesToBase64(Val(Val(settled.response).data).buf)])
                     ELSE Some([value |-> Val(settled.response).data])]
    ELSE [thrown |-> Some(<<Lit("API call failed. ")>> \o errorDetail(settled)),
          result |-> None]

-----------------------------------------------------------------------------
(* server.ts: the tool handler (lines 61-85).  Its outcome is what it      *)
(* gives back to the SDK: [isError, text], text the text of the content    *)
(* returned, or the message of the Error thrown.                           *)

\* the catch block of the handler
handlerError(toolName, message) ==
    [isError |-> TRUE,
     text |-> <<Lit("Error executing tool "), Txt(toolName), Lit(": ")>> \o message]

\* resultText
resultTextOf(result) ==
    IF "isBinary" \in DOMAIN result
    THEN <<Lit("Binary data received: Content-Type: "),
           IF IsSome(result.contentType) THEN Txt(Val(result.contentType))
           ELSE Lit("undefined"),
           Lit(", Base64 Encoded Size: "), [len |-> Len(result.data)], Lit(" bytes")>>
    ELSE IF ~IsSome(result.value) THEN <<Lit("undefined")>>
    ELSE IF IsStr(Val(result.value)) THEN <<Txt(Val(result.value).str)>>
    ELSE <<[pretty |-> Val(result.value)]>>

\* the three backquotes that fence the result text
Fence == Lit("(three backquotes)")

handlerSuccess(toolName, result) ==
    [isError |-> FALSE,
     text |-> <<Lit("Tool "), Txt(toolName), Lit(" executed successfully.\nResult:\n"), Fence,
               Lit("\n")>>
              \o resultTextOf(result) \o <<Lit("\n"), Fence>>]

\* the outcome of a call that has thrown or returned (r is [thrown, result])
handlerOutcome(toolName, r) ==
    IF IsSome(r.thrown) THEN handlerError(toolName, Val(r.thrown))
    ELSE handlerSuccess(toolName, Val(r.result))

-----------------------------------------------------------------------------
(* server.ts: base URL (lines 30-42) *)

deriveBaseUrl(spec) ==
    IF spec.swagger
    THEN LET scheme == IF IsSome(spec.schemes) /\ S_https \in Range(Val(spec.schemes))
                       THEN S_https
                       ELSE firstOr(spec.schemes, S_http)
             basePath == IF IsSome(spec.basePath) THEN Val(spec.basePath) ELSE <<>>
         IN IF IsSome(spec.host) /\ Val(spec.host) # <<>>
            THEN Some(scheme \o <<":", "/", "/">> \o Val(spec.host) \o basePath)
            ELSE None
    ELSE IF IsSome(spec.servers) /\ Len(Val(spec.servers)) > 0
    THEN Some(Val(spec.servers)[1])
    ELSE None


-----------------------------------------------------------------------------
(* The loader (parser.ts): SwaggerParser.validate accepts a document or    *)
(* throws.  The rules below are those of its schema and specification      *)
(* validation that bear on parameters; every document of the model that    *)
(* passes them is a valid document.                                        *)

RECURSIVE naturalParams(_)
\* the parameter objects of all levels of a list of [key, value] entries
naturalParams(entries) ==
    IF entries = <<>> THEN <<>>
    ELSE (IF Head(entries).key = S_parameters THEN Head(entries).value
          ELSE IF Head(entries).key \in HttpMethods /\ IsSome(Head(entries).value)
                  /\ IsSome(Val(Head(entries).value).parameters)
          THEN Val(Val(Head(entries).value).parameters)
          ELSE <<>>)
         \o naturalParams(Tail(entries))

operationsOf(pathItem) ==
    {Val(pathItem[i].value) : i \in {j \in DOMAIN pathItem :
         pathItem[j].key \in HttpMethods /\ IsSome(pathItem[j].value)}}

noDuplicates(list) ==
    \A i, j \in DOMAIN list : i # j => <<list[i].name, list[i].in>> # <<list[j].name, list[j].in>>

\* OpenAPI 3.x: a parameter is in query, header, path or cookie, and the
\* items of a parameter list are unique
acceptedV3(pathItem) ==
    /\ \A i \in DOMAIN naturalParams(pathItem) :
           naturalParams(pathItem)[i].in \in {"query", "header", "path", "cookie"}
    /\ \A i \in DOMAIN pathItem :
           pathItem[i].key = S_parameters =>
               \A a, b \in DOMAIN pathItem[i].value :
                   a # b => pathItem[i].value[a] # pathItem[i].value[b]
    /\ \A op \in operationsOf(pathItem) :
           IsSome(op.parameters) =>
               \A a, b \in DOMAIN Val(op.parameters) :
                   a # b => Val(op.parameters)[a] # Val(op.parameters)[b]

\* Swagger 2.0: no requestBody; a parameter is in query, header, path,
\* formData or body, and has a schema exactly if it is in body; no list
\* repeats a (name, in) pair; the parameters of an operation, path-level
\* ones included, hold at most one body parameter
acceptedV2(pathItem) ==
    LET pathParams == IF IsSome(pathItemParameters(pathItem))
                      THEN Val(pathItemParameters(pathItem)) ELSE <<>>
    IN /\ \A i \in DOMAIN naturalParams(pathItem) :
              /\ naturalParams(pathItem)[i].in \in {"query", "header", "path", "formData", "body"}
              /\ IsSome(naturalParams(pathItem)[i].schema) <=> naturalParams(pathItem)[i].in = "body"
       /\ noDuplicates(pathParams)
       /\ \A op \in operationsOf(pathItem) :
              LET opParams == IF IsSome(op.parameters) THEN Val(op.parameters) ELSE <<>>
                  all == pathParams \o opParams
              IN /\ ~IsSome(op.requestBody)
                 /\ noDuplicates(opParams)
                 /\ Cardinality({all[i].name : i \in {j \in DOMAIN all : all[j].in = "body"}}) <= 1

operationIdsOf(doc) ==
    LET paths == Val(doc.paths)
    IN [i \in DOMAIN paths |->
           {Val(op.operationId) : op \in {o \in operationsOf(paths[i].item) :
                                              IsSome(o.operationId)}}]

\* SwaggerParser.validate succeeds
Accepted(doc) ==
    /\ IsSome(doc.paths)
    /\ \A i, j \in DOMAIN Val(doc.paths) :
           i # j => /\ Val(doc.paths)[i].path # Val(doc.paths)[j].path
                    /\ operationIdsOf(doc)[i] \cap operationIdsOf(doc)[j] = {}
    /\ \A i \in DOMAIN Val(doc.paths) :
           IF doc.swagger THEN acceptedV2(Val(doc.paths)[i].item)
           ELSE acceptedV3(Val(doc.paths)[i].item)

-----------------------------------------------------------------------------
(* The SDK's validation of the arguments of a call against the zodShape    *)
(* the tool was registered with (server.ts lines 58-60), for arguments     *)
(* that are strings or numbers.                                            *)

RECURSIVE zodAccepts(_, _)
\* valueOpt is None for an argument that is not given
zodAccepts(zodType, valueOpt) ==
    CASE zodType.z = "any" -> TRUE
      [] zodType.z = "optional" -> ~IsSome(valueOpt) \/ zodAccepts(zodType.inner, valueOpt)
      [] zodType.z = "described" -> zodAccepts(zodType.inner, valueOpt)
      [] zodType.z = "string" -> IsSome(valueOpt) /\ IsStr(Val(valueOpt))
      [] zodType.z \in {"number", "number.int"} ->
             IsSome(valueOpt) /\ "num" \in DOMAIN Val(valueOpt)
      [] zodType.z = "enum" ->
             IsSome(valueOpt) /\ IsStr(Val(valueOpt)) /\ Val(valueOpt).str \in Range(zodType.values)
      [] OTHER -> FALSE


-----------------------------------------------------------------------------
(* The documents, arguments and upstream answers the model draws from *)

MaxParams == 2      \* the longest parameter list of a document of AdaptDocs
MaxInFlight == 2    \* the most invocations suspended at the await at once
MaxSessions == 2    \* the most SSE connections opened in a run

Schema(type, format) ==
    [type |-> type, format |-> format, enum |-> None, items |-> None,
     properties |-> None, additionalProperties |-> None, xBodyName |-> None]

Param(name, in, required, description, schema) ==
    [name |-> name, in |-> in, required |-> required, description |-> description,
     schema |-> schema]

Operation(operationId, parameters, requestBody, responses) ==
    [operationId |-> operationId, summary |-> None, description |-> None,
     parameters |-> parameters, requestBody |-> requestBody, responses |-> responses]

RequestBody(required, description, content) ==
    [required |-> required, description |-> description, content |-> content]

S_200 == <<"2","0","0">>
S_imagePng == <<"i","m","a","g","e","/","p","n","g">>
S_textPlain == <<"t","e","x","t","/","p","l","a","i","n">>
S_summary == <<"s","u","m","m","a","r","y">>

OkResponses(contentType) ==
    Some(<<[code |-> S_200, response |-> [content |-> Some(<<contentType>>)]]>>)

Doc3(servers, paths) ==
    [swagger |-> FALSE, schemes |-> None, host |-> None, basePath |-> None,
     servers |-> servers, paths |-> Some(paths)]

Doc2(schemes, host, basePath, paths) ==
    [swagger |-> TRUE, schemes |-> schemes, host |-> host, basePath |-> basePath,
     servers |-> None, paths |-> Some(paths)]

\* GET /a/{id}: a path-level path parameter and two required operation-level
\* parameters whose schema names no type
ItemA(operationId, headerIn) ==
    <<[key |-> S_summary, value |-> <<"A">>],
      [key |-> S_parameters,
       value |-> <<Param(<<"i","d">>, "path", Some(TRUE), None,
                         Some(Schema(Some("string"), None)))>>],
      [key |-> S_get,
       value |-> Some(Operation(operationId,
                     Some(<<Param(<<"k">>, headerIn, Some(TRUE), None, Some(Schema(None, None))),
                            Param(<<"m">>, "query", Some(TRUE), None, Some(Schema(None, None)))>>),
                     None, OkResponses(S_applicationJson)))]>>

\* POST: a binary request body, a binary answer
ItemU(operationId) ==
    <<[key |-> S_post,
       value |-> Some(Operation(operationId, None,
                     Some(RequestBody(None, None,
                         Some(<<[ctype |-> S_octetStream,
                                 schema |-> Some(Schema(Some("string"), Some("binary")))]>>))),
                     OkResponses(S_imagePng)))]>>

\* Swagger 2.0 POST: the body is a parameter of the natural list
ItemU2 ==
    <<[key |-> S_post,
       value |-> Some(Operation(None,
                     Some(<<Param(<<"b","o","d","y">>, "body", None, None,
                                  Some(Schema(Some("string"), Some("binary"))))>>),
                     None, None))]>>

PathA == <<"/","a","/","{","i","d","}">>
PathU == <<"/","u">>
PathUU == <<"/","/","u">>
PathXU == <<"x","-","u">>

PathsAU(pathU) ==
    <<[path |-> PathA, item |-> ItemA(None, "header")],
      [path |-> pathU, item |-> ItemU(None)]>>

\* the documents of Spec
Docs ==
    {Doc3(servers, PathsAU(PathU)) :
         servers \in {None, Some(<<>>), Some(<<<<>>>>), Some(<<<<"h">>>>),
                      Some(<<<<"h","/">>>>), Some(<<<<"h","/","/">>>>),
                      Some(<<<<"h">>, <<"g">>>>)}}
    \cup {Doc3(Some(<<base>>), PathsAU(pathU)) :
              base \in {<<"h">>, <<"h","/">>}, pathU \in {PathUU, PathXU}}
    \cup {\* two operation identifiers that sanitize to one name
          Doc3(Some(<<<<"h">>>>),
               <<[path |-> PathA, item |-> ItemA(Some(<<"t","-","1">>), "header")],
                 [path |-> PathU, item |-> ItemU(Some(<<"t","_","1">>))]>>),
          \* a 3.x parameter in body: rejected by the loader
          Doc3(Some(<<<<"h">>>>),
               <<[path |-> PathA, item |-> ItemA(None, "body")]>>),
          Doc2(Some(<<S_http, S_https>>), Some(<<"h">>), Some(<<"/">>),
               <<[path |-> PathU, item |-> ItemU2]>>),
          Doc2(None, None, None, <<[path |-> PathU, item |-> ItemU2]>>)}

\* GET: what it produces, and whether it declares a header parameter Accept
ItemG(responses, withAccept) ==
    <<[key |-> S_get,
       value |-> Some(Operation(None,
                     IF withAccept
                     THEN Some(<<Param(S_Accept, "header", Some(FALSE), None,
                                       Some(Schema(Some("string"), None)))>>)
                     ELSE None,
                     None, responses))]>>

\* the documents of SpecAccept
AcceptDocs ==
    {Doc3(Some(<<<<"h">>>>), <<[path |-> PathU, item |-> ItemG(responses, withAccept)]>>) :
         responses \in {None, OkResponses(S_applicationJson), OkResponses(S_imagePng),
                        OkResponses(S_anyAny)},
         withAccept \in BOOLEAN}
    \cup {Doc3(Some(<<<<"h">>>>), <<[path |-> PathA, item |-> ItemA(None, "body")]>>)}

\* the parameter objects of the documents of AdaptDocs
ParamPool ==
    {Param(<<"a">>, "query", Some(TRUE), None, Some(Schema(Some("integer"), None))),
     Param(<<"a">>, "header", None, Some(<<"d">>), Some(Schema(Some("string"), None))),
     Param(<<"b">>, "query", Some(FALSE), None, None),
     Param(<<"b">>, "body", Some(TRUE), None, Some(Schema(Some("object"), None)))}

ParamLists == UNION {[1..n -> ParamPool] : n \in 0..MaxParams}

BodyPool ==
    {None,
     Some(RequestBody(Some(TRUE), None,
              Some(<<[ctype |-> S_applicationJson,
                      schema |-> Some(Schema(Some("object"), None))]>>))),
     Some(RequestBody(None, Some(<<"b","d">>),
              Some(<<[ctype |-> S_textPlain,
                      schema |-> Some([Schema(Some("string"), None)
                                          EXCEPT !.xBodyName = Some(<<"a">>)])]>>))),
     Some(RequestBody(Some(TRUE), None, None))}

\* one path, one POST operation, parameters at both levels
ParamDoc(swagger, pathParams, opParams, body) ==
    LET item == (IF pathParams = <<>> THEN <<>>
                 ELSE <<[key |-> S_parameters, value |-> pathParams]>>)
                \o <<[key |-> S_post,
                      value |-> Some(Operation(None,
                                    IF opParams = <<>> THEN None ELSE Some(opParams),
                                    body, None))]>>
    IN IF swagger THEN Doc2(None, Some(<<"h">>), None, <<[path |-> <<"/","p">>, item |-> item]>>)
       ELSE Doc3(Some(<<<<"h">>>>), <<[path |-> <<"/","p">>, item |-> item]>>)

NamePaths == {<<"/","a","-","b">>, <<"/","a","_","b">>, <<"/","A","/","b">>, <<"/">>,
              <<"/","a","_","_","{","I","d","}","/">>}
NameIds == {None, Some(<<"x","-","y">>), Some(<<"x","_","y">>), Some(<<>>),
            Some(<<"A",".","9","-">>)}

\* two paths, a GET operation each
NameDoc(path1, id1, path2, id2) ==
    Doc3(Some(<<<<"h">>>>),
         <<[path |-> path1,
            item |-> <<[key |-> S_get, value |-> Some(Operation(id1, None, None, None))]>>],
           [path |-> path2,
            item |-> <<[key |-> S_get, value |-> Some(Operation(id2, None, None, None))]>>]>>)

\* the documents of SpecAdapt
AdaptDocs ==
    {ParamDoc(v, pl, ol, b) : v \in BOOLEAN, pl \in ParamLists, ol \in ParamLists, b \in BodyPool}
    \cup {NameDoc(p1, i1, p2, i2) : p1 \in NamePaths, i1 \in NameIds,
                                    p2 \in NamePaths, i2 \in NameIds}

\* the schema nodes of SpecSchema
TypeWords == {None, Some("string"), Some("integer"), Some("number"), Some("boolean"),
              Some("array"), Some("object"), Some("file")}
FormatWords == {None, Some("binary"), Some("date-time"), Some("date"), Some("byte"),
                Some("int32")}

RefObject == [ref |-> <<"#","/","x">>]

ArraySchema(items) == [Schema(Some("array"), None) EXCEPT !.items = items]

ObjectSchema(properties, additionalProperties) ==
    [Schema(Some("object"), None) EXCEPT !.properties = properties,
                                         !.additionalProperties = additionalProperties]

ItemsPool ==
    {None, Some(RefObject), Some(Schema(Some("string"), None)), Some(Schema(None, None)),
     Some(ArraySchema(Some(RefObject)))}

PropertiesPool ==
    {None, Some(<<>>),
     Some(<<[name |-> <<"p">>, schema |-> RefObject],
            [name |-> <<"q">>, schema |-> Schema(Some("string"), None)]>>),
     Some(<<[name |-> <<"p">>, schema |-> ArraySchema(Some(RefObject))],
            [name |-> <<"q">>, schema |-> Schema(Some("string"), Some("binary"))]>>)}

AdditionalPropertiesPool ==
    {None, Some([bool |-> TRUE]), Some([bool |-> FALSE]), Some(Schema(None, None)),
     Some(Schema(Some("string"), None)), Some(RefObject)}

SchemaPool ==
    {None, Some(RefObject),
     Some([Schema(Some("string"), None) EXCEPT !.enum = Some(<<<<"x">>, <<"y">>>>)])}
    \cup {Some(Schema(t, f)) : t \in TypeWords, f \in FormatWords}
    \cup {Some(ArraySchema(i)) : i \in ItemsPool}
    \cup {Some(ObjectSchema(p, a)) : p \in PropertiesPool, a \in AdditionalPropertiesPool}

\* the values a call may give a parameter, by the parameter's location
ArgValues(in) ==
    CASE in = "path" -> {JStr(<<"a","/","b">>), JStr(<<LoneSurrogate>>)}
      [] in = "body" -> {JStr(<<"Q","U","J","D">>), JStr(<<"Q","Q","=","=">>),
                         JStr(<<"!","!">>), JNum(<<"7">>)}
      [] OTHER -> {JStr(<<"v">>)}

S_imageJsonUpper == <<"i","m","a","g","e","/","J","S","O","N">>

\* the values a call may give a parameter: a header parameter named Accept
\* gets values that decide the response mode
ArgValuesOf(p) ==
    IF p.in = "header" /\ p.name = S_Accept
    THEN {JStr(<<>>), JStr(S_imagePng), JStr(S_anyAny), JStr(S_imageJsonUpper)}
    ELSE ArgValues(p.in)

RECURSIVE argMaps(_, _)
\* the maps that give each parameter of the list no value or one of its
\* values, as far as the parameter's type in the shape accepts it
argMaps(zodShape, parameters) ==
    IF parameters = <<>> THEN {EmptyMap}
    ELSE LET p == Head(parameters)
             rest == argMaps(zodShape, Tail(parameters))
             values == {v \in ArgValuesOf(p) : zodAccepts(zodShape[p.name], Some(v))}
         IN (IF zodAccepts(zodShape[p.name], None) THEN rest ELSE {})
            \cup {mapPut(m, p.name, v) : m \in rest, v \in values}

\* the argument maps the SDK hands to the handler of toolDef: the keys of
\* the shape only (they are the names of the parameters), each value
\* accepted by its type
ArgsFor(toolDef) == argMaps(toolDef.zodShape, toolDef.originalOperation.parameters)

S_404 == <<"4","0","4">>
S_500 == <<"5","0","0">>

\* what axios may settle with, by the responseType asked for
SettledFor(responseType) ==
    IF responseType = "json"
    THEN {[ok |-> TRUE,
           response |-> Some([status |-> S_200, contentType |-> Some(S_applicationJson),
                              data |-> Some([json |-> <<"{","}">>])])],
          [ok |-> FALSE,
           response |-> Some([status |-> S_404, contentType |-> Some(S_applicationJson),
                              data |-> Some([json |-> <<"{","s","}">>])])],
          [ok |-> FALSE,
           response |-> Some([status |-> S_500, contentType |-> Some(S_textPlain),
                              data |-> Some(JStr(<<"o","o","p","s">>))])],
          [ok |-> FALSE,
           response |-> Some([status |-> S_404, contentType |-> None, data |-> None])],
          [ok |-> FALSE,
           response |-> Some([status |-> S_500, contentType |-> Some(S_applicationJson),
                              data |-> Some(JNum(<<"0">>))])],
          [ok |-> FALSE,
           response |-> Some([status |-> S_500, contentType |-> None,
                              data |-> Some([circular |-> TRUE])])],
          [ok |-> FALSE, response |-> None]}
    ELSE {[ok |-> TRUE,
           response |-> Some([status |-> S_200, contentType |-> Some(S_imagePng),
                              data |-> Some(JBuf(<<137, 80>>))])],
          [ok |-> FALSE,
           response |-> Some([status |-> S_404, contentType |-> Some(S_applicationJson),
                              data |-> Some(JBuf(<<123, 125>>))])],
          [ok |-> FALSE, response |-> None]}


-----------------------------------------------------------------------------
(* server.ts: start-up (runServer, createServerInfrastructure) and calls *)

ServerInit(docs) ==
    /\ apiSpec \in docs
    /\ pc = "start"
    /\ apiBaseUrl = None
    /\ sdkTools = <<>>
    /\ registered = <<>>
    /\ exitCode = None
    /\ calls = {}
    /\ last = None
    /\ sseTransports = {}
    /\ sseConn = <<>>
    /\ lastPost = None

\* the server before it starts; openApiTypeToZod at rest
InitWith(docs) ==
    /\ ServerInit(docs)
    /\ schemaIn = None
    /\ descriptor = None

Init == InitWith(Docs)

\* line 28: parseOpenAPI returns the document
ParseOk ==
    /\ pc = "start"
    /\ Accepted(apiSpec)
    /\ pc' = "parsed"
    /\ UNCHANGED <<apiSpec, apiBaseUrl, sdkTools, registered, exitCode, calls, last>>
    /\ UNCHANGED <<sseVars, schemaVars>>

\* line 28: parseOpenAPI throws; the catch of runServer exits (line 210)
ParseFail ==
    /\ pc = "start"
    /\ ~Accepted(apiSpec)
    /\ pc' = "exited"
    /\ exitCode' = Some(1)
    /\ UNCHANGED <<apiSpec, apiBaseUrl, sdkTools, registered, calls, last>>
    /\ UNCHANGED <<sseVars, schemaVars>>

\* lines 30-50: the base URL and the tool table
Adapt ==
    /\ pc = "parsed"
    /\ apiBaseUrl' = deriveBaseUrl(apiSpec)
    /\ sdkTools' = adaptOpenAPIToSdkTools(apiSpec)
    /\ pc' = "registering"
    /\ UNCHANGED <<apiSpec, registered, exitCode, calls, last>>
    /\ UNCHANGED <<sseVars, schemaVars>>

\* the loop as it would be if it stopped after its first turn
registrationDone_FirstOnly(n, total) == n >= 1 \/ total = 0

\* the forEach of line 52 has run through all n of total tools
registrationDone(n, total) == n = total

\* lines 52-87, one turn of the forEach: mcpServer.tool(name, ...)
RegisterTool ==
    /\ pc = "registering"
    /\ ~registrationDone(Len(registered), Len(sdkTools))
    /\ LET name == sdkTools[Len(registered) + 1].name
       IN \/ /\ registered' = Append(registered, name)
             /\ UNCHANGED <<pc, exitCode>>
          \/ \* the SDK refuses a name it holds already: runServer exits
             /\ name \in Range(registered)
             /\ pc' = "exited"
             /\ exitCode' = Some(1)
             /\ UNCHANGED registered
    /\ UNCHANGED <<apiSpec, apiBaseUrl, sdkTools, calls, last>>
    /\ UNCHANGED <<sseVars, schemaVars>>

\* lines 89-153: the transports and routes are set up and the function returns
CreateInfrastructure ==
    /\ pc = "registering"
    /\ registrationDone(Len(registered), Len(sdkTools))
    /\ pc' = "created"
    /\ UNCHANGED <<apiSpec, apiBaseUrl, sdkTools, registered, exitCode, calls, last>>
    /\ UNCHANGED <<sseVars, schemaVars>>

\* line 164: await mcpServer.connect(transport)
ConnectTransport ==
    /\ pc = "created"
    /\ \/ /\ pc' = "connected"
          /\ UNCHANGED exitCode
       \/ /\ pc' = "exited"
          /\ exitCode' = Some(1)
    /\ UNCHANGED <<apiSpec, apiBaseUrl, sdkTools, registered, calls, last>>
    /\ UNCHANGED <<sseVars, schemaVars>>

\* lines 188-206: server.listen, or its error event
Listen ==
    /\ pc = "connected"
    /\ \/ /\ pc' = "listening"
          /\ UNCHANGED exitCode
       \/ /\ pc' = "exited"
          /\ exitCode' = Some(1)
    /\ UNCHANGED <<apiSpec, apiBaseUrl, sdkTools, registered, calls, last>>
    /\ UNCHANGED <<sseVars, schemaVars>>

\* lines 167-186: SIGINT or SIGTERM
Shutdown ==
    /\ pc = "listening"
    /\ pc' = "exited"
    /\ \E code \in {0, 1} : exitCode' = Some(code)
    /\ calls' = {}
    /\ UNCHANGED <<apiSpec, apiBaseUrl, sdkTools, registered, last>>
    /\ UNCHANGED <<sseVars, schemaVars>>

\* the tool the SDK runs for a name: the one registered last under it
dispatch(name) ==
    CHOOSE i \in DOMAIN registered :
        registered[i] = name /\ \A j \in DOMAIN registered : registered[j] = name => j <= i

\* what the model keeps of a step of an invocation
\* (given: mcpArgs as handed in; args: mcpArgs as the call leaves it; thrown:
\* the message executeApiCall threw; result: the value it returned; out: what
\* the handler gave the SDK)
Event(kind, tool, given, args, config, urlPath, settled, thrown, result, out) ==
    [kind |-> kind, tool |-> tool, given |-> given, args |-> args, config |-> config,
     urlPath |-> urlPath, settled |-> settled, thrown |-> thrown, result |-> result,
     out |-> out]

\* the handler is called (lines 61-64) and runs to the await or to its throw
InvokeTool ==
    /\ pc = "listening"
    /\ Cardinality(calls) < MaxInFlight
    /\ \E name \in Range(registered) :
          LET i == dispatch(name)
          IN \E mcpArgs \in ArgsFor(sdkTools[i]) :
                LET r == executeApiCall(apiBaseUrl, sdkTools[i].originalOperation, mcpArgs)
                    table == [sdkTools EXCEPT ![i].originalOperation = r.operationDetails]
                IN /\ sdkTools' = table
                   /\ IF IsSome(r.thrown)
                      THEN /\ last' = Some(Event("thrown", i, mcpArgs, r.mcpArgs, None, None, None,
                                                 r.thrown, None,
                                                 Some(handlerError(table[i].name, Val(r.thrown)))))
                           /\ UNCHANGED calls
                      ELSE /\ last' = Some(Event("request", i, mcpArgs, r.mcpArgs, r.config,
                                                 r.urlPath, None, None, None, None))
                           /\ calls' = calls \cup {[tool |-> i, given |-> mcpArgs,
                                                    args |-> r.mcpArgs,
                                                    config |-> Val(r.config),
                                                    urlPath |-> r.urlPath]}
    /\ UNCHANGED <<pc, apiSpec, apiBaseUrl, registered, exitCode>>
    /\ UNCHANGED <<sseVars, schemaVars>>

\* axios settles and the handler finishes (lines 100-130, 66-84)
Respond ==
    /\ pc = "listening"
    /\ \E c \in calls :
          \E settled \in SettledFor(c.config.responseType) :
             /\ calls' = calls \ {c}
             /\ LET r == executeApiCallSettled(c.config, settled)
                IN last' = Some(Event("settled", c.tool, c.given, c.args, Some(c.config),
                                      c.urlPath, Some(settled), r.thrown, r.result,
                                      Some(handlerOutcome(sdkTools[c.tool].name, r))))
    /\ UNCHANGED <<pc, apiSpec, apiBaseUrl, sdkTools, registered, exitCode>>
    /\ UNCHANGED <<sseVars, schemaVars>>

Startup ==
    \/ ParseOk
    \/ ParseFail
    \/ Adapt
    \/ RegisterTool
    \/ CreateInfrastructure
    \/ ConnectTransport
    \/ Listen

Next == Startup \/ Shutdown \/ InvokeTool \/ Respond

Spec == Init /\ [][Next]_vars

\* the server over documents that differ in the Accept header of their calls
InitAccept == InitWith(AcceptDocs)

SpecAccept == InitAccept /\ [][Next]_vars

-----------------------------------------------------------------------------
(* server.ts: the SSE bridge (lines 93-140).  sseTransports is kept as the *)
(* set of its own keys; sseConn maps the session id of every connection    *)
(* opened so far to [open, connect]: whether the response is still open,   *)
(* and whether mcpServer.connect is "pending", "connected" or "failed".    *)

\* sseTransport.sessionId: the SDK draws a fresh identifier per transport
sessionIdOf(n) == <<"s", ToString(n)>>

S_constructor == <<"c","o","n","s","t","r","u","c","t","o","r">>

\* keys every plain object inherits from Object.prototype
ObjectPrototypeKeys == {S_constructor, <<"_","_","p","r","o","t","o","_","_">>}

\* sseTransports[sessionId]: an own key gives its transport, an inherited key
\* what Object.prototype holds, any other key undefined
lookupTransport(table, sessionId) ==
    IF sessionId \in table THEN [transport |-> sessionId]
    ELSE IF sessionId \in ObjectPrototypeKeys THEN [inherited |-> sessionId]
    ELSE [undefined |-> TRUE]

\* the sessionId query parameters of the POST requests
PostSessionIds ==
    {None, Some(<<>>), Some(S_constructor), Some(<<"z">>)}
    \cup {Some(sessionIdOf(n)) : n \in 1..MaxSessions}

\* GET /sse, lines 95-107: up to the await
SseOpen ==
    /\ pc = "listening"
    /\ Cardinality(DOMAIN sseConn) < MaxSessions
    /\ LET sessionId == sessionIdOf(Cardinality(DOMAIN sseConn) + 1)
       IN /\ sseTransports' = sseTransports \cup {sessionId}
          /\ sseConn' = (sessionId :> [open |-> TRUE, connect |-> "pending"]) @@ sseConn
    /\ UNCHANGED <<serverVars, lastPost, schemaVars>>

\* lines 108-109: mcpServer.connect resolves
SseConnected ==
    /\ pc = "listening"
    /\ \E sessionId \in DOMAIN sseConn :
          /\ sseConn[sessionId].connect = "pending"
          /\ sseConn' = [sseConn EXCEPT ![sessionId].connect = "connected"]
    /\ UNCHANGED <<serverVars, sseTransports, lastPost, schemaVars>>

\* lines 110-116: mcpServer.connect rejects
SseConnectFailed ==
    /\ pc = "listening"
    /\ \E sessionId \in DOMAIN sseConn :
          /\ sseConn[sessionId].connect = "pending"
          /\ sseConn' = [sseConn EXCEPT ![sessionId].connect = "failed"]
          /\ sseTransports' = sseTransports \ {sessionId}
    /\ UNCHANGED <<serverVars, lastPost, schemaVars>>

\* lines 102-105: the close event of the response
SseClose ==
    /\ pc = "listening"
    /\ \E sessionId \in DOMAIN sseConn :
          /\ sseConn[sessionId].open
          /\ sseConn' = [sseConn EXCEPT ![sessionId].open = FALSE]
          /\ sseTransports' = sseTransports \ {sessionId}
    /\ UNCHANGED <<serverVars, lastPost, schemaVars>>

\* what the model keeps of a POST /messages: the sessionId asked for, whether
\* it was a key of the table then, the transport it was handed to, the status
PostEvent(sessionId, inTable, delivered, status) ==
    [sessionId |-> sessionId, inTable |-> inTable, delivered |-> delivered,
     status |-> status]

\* POST /messages, lines 119-140
PostMessage ==
    /\ pc = "listening"
    /\ \E query \in PostSessionIds :
          LET inTable == IsSome(query) /\ Val(query) \in sseTransports
          IN IF ~IsSome(query) \/ Val(query) = <<>>
             THEN lastPost' = Some(PostEvent(query, inTable, None, 400))
             ELSE LET sseTransport == lookupTransport(sseTransports, Val(query))
                  IN IF "transport" \in DOMAIN sseTransport
                     THEN \* handlePostMessage answers, or throws and line 133 answers
                          \E status \in {202, 400, 500} :
                              lastPost' = Some(PostEvent(query, inTable,
                                                         Some(sseTransport.transport), status))
                     ELSE IF "inherited" \in DOMAIN sseTransport
                     THEN \* handlePostMessage is not a function: TypeError, line 133
                          lastPost' = Some(PostEvent(query, inTable, None, 500))
                     ELSE lastPost' = Some(PostEvent(query, inTable, None, 400))
    /\ UNCHANGED <<serverVars, sseTransports, sseConn, schemaVars>>

SseNext == SseOpen \/ SseConnected \/ SseConnectFailed \/ SseClose \/ PostMessage

\* the documents of SpecSse
SseDocs ==
    {Doc3(Some(<<<<"h">>>>), PathsAU(PathU)),
     Doc3(Some(<<<<"h">>>>), <<[path |-> PathA, item |-> ItemA(None, "body")]>>)}

InitSse == InitWith(SseDocs)

NextSse == Startup \/ Shutdown \/ SseNext

\* the server and its SSE bridge, no tool called
SpecSse == InitSse /\ [][NextSse]_vars

\* openApiTypeToZod is applied to the schema node
MapSchema ==
    /\ descriptor = None
    /\ descriptor' = Some(openApiTypeToZod(schemaIn))
    /\ UNCHANGED <<serverVars, sseVars, schemaIn>>

\* openApiTypeToZod alone, over a family of schema nodes
InitSchema ==
    /\ ServerInit({Doc3(None, <<>>)})
    /\ schemaIn \in SchemaPool
    /\ descriptor = None

SpecSchema == InitSchema /\ [][MapSchema]_vars

\* the loader and the adapter alone, over a wider family of documents
InitAdapt == InitWith(AdaptDocs)

NextAdapt == ParseOk \/ ParseFail \/ Adapt

SpecAdapt == InitAdapt /\ [][NextAdapt]_vars


-----------------------------------------------------------------------------
(* Properties of the adapter (checked under SpecAdapt) *)

RECURSIVE verbEntries(_, _, _)
verbEntries(path, pathItem, entries) ==
    IF entries = <<>> THEN <<>>
    ELSE (IF Head(entries).key \in HttpMethods /\ IsSome(Head(entries).value)
          THEN <<[path |-> path, item |-> pathItem, method |-> Head(entries).key,
                  operation |-> Val(Head(entries).value)]>>
          ELSE <<>>)
         \o verbEntries(path, pathItem, Tail(entries))

RECURSIVE operationsInOrder(_)
\* the (path, method) operations of a list of paths, in document order
operationsInOrder(paths) ==
    IF paths = <<>> THEN <<>>
    ELSE verbEntries(Head(paths).path, Head(paths).item, Head(paths).item)
         \o operationsInOrder(Tail(paths))

\* the document's operations once it is adapted
AdaptedOperations == operationsInOrder(Val(apiSpec.paths))

\* one declaration taken alone: the Parameter-Spec and the type it yields
naturalDeclaration(param) ==
    LET r == extractAndBuildZodShape(Some(<<param>>), EmptyShape)
    IN [spec |-> r.params[1], zod |-> r.zodShape[param.name], level |-> "natural"]

naturalDeclarations(paramsOpt) ==
    IF ~IsSome(paramsOpt) THEN <<>>
    ELSE LET kept == SelectSeq(Val(paramsOpt), LAMBDA d : ~IsRef(d))
         IN [i \in DOMAIN kept |-> naturalDeclaration(kept[i])]

bodyDeclaration(requestBody) ==
    LET r == extractRequestBodyAndBuildZodShape(requestBody, EmptyShape)
    IN IF r.params = <<>> THEN <<>>
       ELSE <<[spec |-> r.params[1], zod |-> r.zodShape[r.params[1].name],
               level |-> "body"]>>

\* the declarations of an operation in the order path item, operation, body
declarationsOf(o) ==
    naturalDeclarations(pathItemParameters(o.item))
    \o naturalDeclarations(o.operation.parameters)
    \o bodyDeclaration(o.operation.requestBody)

\* the position of the latest declaration of a name
latestOf(decls, name) ==
    CHOOSE k \in DOMAIN decls :
        decls[k].spec.name = name /\ \A j \in DOMAIN decls : decls[j].spec.name = name => j <= k

Adapted == pc = "registering"

\* C1: no two Tool Definitions returned by adaptOpenAPIToSdkTools for one
\* document have the same name.
C1_UniqueToolNames ==
    Adapted => \A i, j \in DOMAIN sdkTools :
                   i # j => sdkTools[i].name # sdkTools[j].name

\* C6: the merged parameter list of every Tool Definition holds each declared
\* name once, and both the Parameter-Spec kept for a name and the
\* parameterShape entry of that name are those of its latest declaration in
\* the order path item, operation, synthesized body.
C6_LatestDeclarationWins ==
    Adapted =>
        /\ Len(sdkTools) = Len(AdaptedOperations)
        /\ \A t \in DOMAIN sdkTools :
               LET decls == declarationsOf(AdaptedOperations[t])
                   merged == sdkTools[t].originalOperation.parameters
                   shape == sdkTools[t].zodShape
                   names == {decls[k].spec.name : k \in DOMAIN decls}
               IN /\ \A i, j \in DOMAIN merged : i # j => merged[i].name # merged[j].name
                  /\ {merged[i].name : i \in DOMAIN merged} = names
                  /\ DOMAIN shape = names
                  /\ \A i \in DOMAIN merged :
                         /\ merged[i] = decls[latestOf(decls, merged[i].name)].spec
                         /\ shape[merged[i].name] = decls[latestOf(decls, merged[i].name)].zod

\* a name declared at all three levels, the declarations differing
C6_Witness ==
    /\ Adapted
    /\ \E t \in DOMAIN sdkTools :
           LET decls == declarationsOf(AdaptedOperations[t])
           IN \E a, b, c \in DOMAIN decls :
                  /\ a < b /\ b < c
                  /\ decls[a].spec.name = decls[b].spec.name
                  /\ decls[b].spec.name = decls[c].spec.name
                  /\ decls[a].spec # decls[b].spec
                  /\ decls[c].level = "body"
                  /\ Len(sdkTools[t].originalOperation.parameters) = 1

bodyPositions(merged) == {i \in DOMAIN merged : merged[i].in = "body"}

\* C7 as stated: the merged parameter list of every operation holds at most
\* one Parameter-Spec with location body, and that one is the parameter
\* synthesized from the request-body descriptor.
C7_Original ==
    Adapted =>
        \A t \in DOMAIN sdkTools :
            LET merged == sdkTools[t].originalOperation.parameters
                synthesized == bodyDeclaration(AdaptedOperations[t].operation.requestBody)
            IN /\ Cardinality(bodyPositions(merged)) <= 1
               /\ \A i \in bodyPositions(merged) :
                      synthesized # <<>> /\ merged[i] = synthesized[1].spec

\* C7 amended: at most one Parameter-Spec with location body; in an OpenAPI
\* 3.x document it is the synthesized one, present whenever the request body
\* has a usable schema; in an OpenAPI 2.0 document it is the Parameter-Spec of
\* a parameter of the natural lists declared in body.
C7_BodyParameter ==
    Adapted =>
        \A t \in DOMAIN sdkTools :
            LET o == AdaptedOperations[t]
                merged == sdkTools[t].originalOperation.parameters
                synthesized == bodyDeclaration(o.operation.requestBody)
                natural == naturalDeclarations(pathItemParameters(o.item))
                           \o naturalDeclarations(o.operation.parameters)
            IN /\ Cardinality(bodyPositions(merged)) <= 1
               /\ ~apiSpec.swagger =>
                      /\ \A i \in bodyPositions(merged) :
                             synthesized # <<>> /\ merged[i] = synthesized[1].spec
                      /\ synthesized # <<>> => bodyPositions(merged) # {}
               /\ apiSpec.swagger =>
                      \A i \in bodyPositions(merged) :
                          \E k \in DOMAIN natural : natural[k].spec = merged[i]

\* an OpenAPI 2.0 operation whose body parameter is declared at both levels
C7_Witness ==
    /\ Adapted
    /\ apiSpec.swagger
    /\ \E t \in DOMAIN sdkTools :
           LET o == AdaptedOperations[t]
           IN /\ bodyPositions(sdkTools[t].originalOperation.parameters) # {}
              /\ \E a \in DOMAIN naturalDeclarations(pathItemParameters(o.item)) :
                     naturalDeclarations(pathItemParameters(o.item))[a].spec.in = "body"
              /\ \E b \in DOMAIN naturalDeclarations(o.operation.parameters) :
                     naturalDeclarations(o.operation.parameters)[b].spec.in = "body"

-----------------------------------------------------------------------------
(* Properties of the calls (checked under Spec) *)

\* the base URL is absent or empty
NoBaseUrl == apiBaseUrl = None \/ apiBaseUrl = Some(<<>>)

\* the parameter list of the tool an event or a call is about
parametersOf(e) == sdkTools[e.tool].originalOperation.parameters

\* the positions of the required parameters the arguments give no value
missingRequired(e) ==
    {i \in DOMAIN parametersOf(e) :
        parametersOf(e)[i].required /\ parametersOf(e)[i].name \notin DOMAIN e.given}

MissingParameterError(name) == Some(<<Lit("Missing required parameter: "), Txt(name)>>)

ConfigurationError ==
    Some(<<Lit("API base URL is not configured. Cannot execute API call.")>>)

\* a path parameter before position i has a value that cannot be encoded
malformedBefore(e, i) ==
    \E j \in DOMAIN parametersOf(e) :
        /\ j < i
        /\ parametersOf(e)[j].in = "path"
        /\ parametersOf(e)[j].name \in DOMAIN e.given
        /\ encodeURIComponentThrows(String(e.given[parametersOf(e)[j].name]))

C3_ConfigurationError ==
    [][(NoBaseUrl /\ last' # last) =>
          /\ IsSome(last')
          /\ Val(last').kind = "thrown"
          /\ Val(last').thrown = ConfigurationError
          /\ Val(last').config = None
          /\ Val(last').out =
                 Some([isError |-> TRUE,
                       text |-> <<Lit("Error executing tool "),
                                  Txt(sdkTools[Val(last').tool].name), Lit(": ")>>
                                \o Val(ConfigurationError)])
          /\ calls = {} /\ calls' = {}
          /\ pc = "listening" /\ pc' = "listening"
          /\ exitCode' = exitCode /\ exitCode = None]_vars

\* an invocation that lacks a required parameter and one whose path value
\* cannot be encoded both end in the ConfigurationError, the base URL empty
C3_Witness ==
    /\ apiBaseUrl = Some(<<>>)
    /\ pc = "listening"
    /\ IsSome(last)
    /\ Val(last).thrown = ConfigurationError
    /\ missingRequired(Val(last)) # {}
    /\ malformedBefore(Val(last), Len(parametersOf(Val(last))) + 1)

\* the parts of a text that carry a value of the upstream response
payloadParts(text) ==
    {i \in DOMAIN text : "json" \in DOMAIN text[i] \/ "pretty" \in DOMAIN text[i]}

\* C4: the text the handler returns for a failed invocation carries the
\* message only and never the body of the upstream response.
C4_NoUpstreamBody ==
    (IsSome(last) /\ Val(last).kind # "request" /\ Val(Val(last).out).isError) =>
        payloadParts(Val(Val(last).out).text) = {}

\* text of complete base64 groups: alphabet characters, at most two '=' at the end
validBase64(s) ==
    /\ Len(s) % 4 = 0
    /\ \A i \in DOMAIN s :
           \/ s[i] \in Range(Base64Chars)
           \/ s[i] = "=" /\ i > Len(s) - 2 /\ \A j \in i..Len(s) : s[j] = "="

\* the binary body parameters of a call that were given text
binaryTextBodies(c) ==
    {i \in DOMAIN parametersOf(c) :
        /\ parametersOf(c)[i].in = "body"
        /\ isBinarySchema(parametersOf(c)[i].schema)
        /\ parametersOf(c)[i].name \in DOMAIN c.given
        /\ IsStr(c.given[parametersOf(c)[i].name])}

\* C5: a binary body parameter given valid base64 text is sent as the decoded
\* bytes with Content-Type application/octet-stream; given text that is not
\* valid base64 it is sent as the original string.
C5_BinaryBody ==
    \A c \in calls :
        \A i \in binaryTextBodies(c) :
            LET value == c.given[parametersOf(c)[i].name]
            IN IF validBase64(value.str)
               THEN /\ c.config.data = Some(JBuf(bufferFromBase64(value.str)))
                    /\ c.config.headers[S_ContentType] = S_octetStream
               ELSE c.config.data = Some(value)

-----------------------------------------------------------------------------
(* Properties of the start-up and of the tool table (checked under Spec) *)

\* the names of the whole tool table, in its order
allToolNames == [i \in DOMAIN sdkTools |-> sdkTools[i].name]

\* C8: the transport is connected, the socket listens and a tool is invoked
\* only when the document was accepted and every Tool Definition is
\* registered; a document the loader refuses gets no tool registered and no
\* invocation, and the process exits with status 1.
C8_StartupComplete ==
    /\ (pc \in {"created", "connected", "listening"} \/ IsSome(last) \/ calls # {}) =>
           /\ Accepted(apiSpec)
           /\ registered = allToolNames
    /\ ~Accepted(apiSpec) =>
           /\ pc \in {"start", "exited"}
           /\ registered = <<>> /\ sdkTools = <<>>
           /\ last = None /\ calls = {}
           /\ pc = "exited" => exitCode = Some(1)
    /\ pc \in {"start", "parsed", "registering", "created", "connected"} =>
           last = None /\ calls = {} /\ exitCode = None

\* a tool was invoked, the server listening with both tools registered
C8_Witness ==
    /\ pc = "listening"
    /\ Len(sdkTools) = 2
    /\ registered = allToolNames
    /\ IsSome(last)
    /\ calls # {}

\* the step of an invocation as the tool table of start-up, the arguments
\* handed in and the upstream response determine it
determined(e) ==
    LET toolDef == adaptOpenAPIToSdkTools(apiSpec)[e.tool]
        r == executeApiCall(deriveBaseUrl(apiSpec), toolDef.originalOperation, e.given)
    IN /\ e.args = e.given
       /\ e.kind = "thrown" =>
              /\ e.thrown = r.thrown /\ IsSome(r.thrown)
              /\ e.out = Some(handlerError(toolDef.name, Val(r.thrown)))
       /\ e.kind = "request" => e.config = r.config /\ ~IsSome(r.thrown)
       /\ e.kind = "settled" =>
              /\ e.config = r.config
              /\ e.out = Some(handlerOutcome(toolDef.name,
                                             executeApiCallSettled(Val(r.config), Val(e.settled))))

\* C9: from adaptation on, the tool table and the base URL are those computed
\* from the document at start-up whatever invocations have run or are in
\* flight, an invocation leaves its argument map as it was handed in, and
\* what an invocation requests and returns is a function of the start-up
\* table, its own arguments and its own upstream response.
C9_NoSharedMutation ==
    /\ (pc \in {"registering", "created", "connected", "listening"}
        \/ IsSome(last) \/ calls # {}) =>
           /\ sdkTools = adaptOpenAPIToSdkTools(apiSpec)
           /\ apiBaseUrl = deriveBaseUrl(apiSpec)
    /\ \A c \in calls :
           determined([kind |-> "request", tool |-> c.tool, given |-> c.given,
                       args |-> c.args, config |-> Some(c.config)])
    /\ IsSome(last) => determined(Val(last))

\* of two invocations in flight together the one of another tool has settled
\* and the one with a substituted path is still in flight
C9_Witness ==
    /\ IsSome(last)
    /\ Val(last).kind = "settled"
    /\ \E c \in calls :
           /\ c.urlPath # Some(sdkTools[c.tool].originalOperation.path)
           /\ c.tool # Val(last).tool

RECURSIVE stripTrailing(_)
stripTrailing(s) ==
    IF s # <<>> /\ s[Len(s)] = "/" THEN stripTrailing(SubSeq(s, 1, Len(s) - 1)) ELSE s

RECURSIVE stripLeading(_)
stripLeading(s) == IF s # <<>> /\ Head(s) = "/" THEN stripLeading(Tail(s)) ELSE s

slashes(n) == [i \in 1..n |-> "/"]

Max(a, b) == IF a >= b THEN a ELSE b

\* the number of slashes the base URL ends with, the path starts with
trailingSlashes(s) == Len(s) - Len(stripTrailing(s))
leadingSlashes(s) == Len(s) - Len(stripLeading(s))

\* C10 as stated: the target URL is the base URL and the substituted path
\* with exactly one '/' between them.
C10_Original ==
    \A c \in calls :
        c.config.url = stripTrailing(Val(apiBaseUrl)) \o <<"/">> \o stripLeading(Val(c.urlPath))

\* C10 amended: the target URL is the base URL without its trailing slashes,
\* then max(t - 1, 0) + max(l, 1) slashes, then the substituted path without
\* its leading slashes, where the base URL ends with t slashes and the path
\* starts with l; the join is exactly one '/' when t <= 1 and l <= 1.
C10_TargetUrl ==
    \A c \in calls :
        LET t == trailingSlashes(Val(apiBaseUrl))
            l == leadingSlashes(Val(c.urlPath))
        IN /\ c.config.url = stripTrailing(Val(apiBaseUrl))
                             \o slashes(Max(t - 1, 0) + Max(l, 1))
                             \o stripLeading(Val(c.urlPath))
           /\ (t <= 1 /\ l <= 1) =>
                  c.config.url = stripTrailing(Val(apiBaseUrl)) \o <<"/">>
                                 \o stripLeading(Val(c.urlPath))

\* a base URL that ends with '/' joined to a path that does not start with one
C10_Witness ==
    \E c \in calls :
        /\ trailingSlashes(Val(apiBaseUrl)) = 1
        /\ leadingSlashes(Val(c.urlPath)) = 0
        /\ c.config.url = stripTrailing(Val(apiBaseUrl)) \o <<"/">> \o Val(c.urlPath)

-----------------------------------------------------------------------------
(* Properties of the response of a call (checked under SpecAccept) *)

\* the Accept header of a call: the value given to a header parameter named
\* Accept, else the first content type the operation produces, else
\* application/json
effectiveAccept(c) ==
    LET op == sdkTools[c.tool].originalOperation
    IN IF /\ \E i \in DOMAIN op.parameters :
                 op.parameters[i].in = "header" /\ op.parameters[i].name = S_Accept
          /\ S_Accept \in DOMAIN c.given
       THEN String(c.given[S_Accept])
       ELSE IF IsSome(op.produces) THEN Val(op.produces)[1] ELSE S_applicationJson

\* absent, or holds json or */* (letters compared in lower case)
jsonMode(accept) ==
    \/ accept = <<>>
    \/ includes(toLowerCase(accept), S_json)
    \/ includes(toLowerCase(accept), S_anyAny)

-----------------------------------------------------------------------------
(* Properties of a failed call (checked under Spec) *)

\* the message of the ApiCallError for a status part and what follows it
ApiCallError(status, rest) ==
    Some(<<Lit("API call failed. "), Lit("Status: "), status>> \o rest)

\* what the detail carries after the status when the body counts as present
detailOfBody(response) ==
    IF IsSome(response.contentType) /\ Val(response.contentType) # <<>>
       /\ ~includes(Val(response.contentType), S_json)
    THEN <<Lit(", Content-Type: "), Txt(Val(response.contentType))>>
    ELSE IF "circular" \in DOMAIN Val(response.data)
    THEN <<Lit(", Data: [Could not stringify response data]")>>
    ELSE <<Lit(", Data: "), [json |-> Val(response.data)]>>

\* the call of the latest step has failed
callFailed == IsSome(last) /\ Val(last).kind = "settled" /\ ~Val(Val(last).settled).ok

\* C12 as stated: a failed call throws the ApiCallError with Status: <code>,
\* or Status: N/A without a response, followed, whenever the response has a
\* body, by the content type (not JSON) or the serialised body or the marker.
C12_Original ==
    callFailed =>
        LET response == Val(last).settled[1].response
        IN Val(last).thrown =
               IF ~IsSome(response) THEN ApiCallError(Lit("N/A"), <<>>)
               ELSE IF ~IsSome(Val(response).data) \/ Val(response).data = Some(JStr(<<>>))
               THEN ApiCallError(Txt(Val(response).status), <<>>)
               ELSE ApiCallError(Txt(Val(response).status), detailOfBody(Val(response)))

\* C12 amended: as stated, except that the detail carries the content type,
\* the serialised body or the marker only when the body is a truthy value: a
\* body that is the number 0 (as one that is empty) adds nothing to the
\* detail; and the result is not a returned value.
C12_ApiCallError ==
    callFailed =>
        LET response == Val(last).settled[1].response
            falsy == {None, Some(JStr(<<>>)), Some(JNum(<<"0">>))}
        IN /\ Val(last).result = None
           /\ Val(last).thrown =
                  IF ~IsSome(response) THEN ApiCallError(Lit("N/A"), <<>>)
                  ELSE IF Val(response).data \in falsy
                  THEN ApiCallError(Txt(Val(response).status), <<>>)
                  ELSE ApiCallError(Txt(Val(response).status), detailOfBody(Val(response)))

\* a 500 answer whose JSON body is the number 0 fails with Status: 500 alone
C12_Witness ==
    /\ callFailed
    /\ IsSome(Val(last).settled[1].response)
    /\ Val(Val(last).settled[1].response).data = Some(JNum(<<"0">>))
    /\ Val(last).thrown = ApiCallError(Txt(S_500), <<>>)

-----------------------------------------------------------------------------
(* Properties of the tool names (checked under SpecAdapt) *)

LowerAlnum == Range(LowerChars) \cup Range(DigitChars)

RECURSIVE alnumRuns(_, _)
\* the maximal runs of characters of [a-z0-9] of s, after the run cur
alnumRuns(s, cur) ==
    LET closed == IF cur = <<>> THEN <<>> ELSE <<cur>>
    IN IF s = <<>> THEN closed
       ELSE IF Head(s) \in LowerAlnum THEN alnumRuns(Tail(s), Append(cur, Head(s)))
       ELSE closed \o alnumRuns(Tail(s), <<>>)

\* the runs, a '_' before each but the first
underscored(runs) ==
    Concat([i \in DOMAIN runs |-> IF i = 1 THEN runs[i] ELSE <<"_">> \o runs[i]])

-----------------------------------------------------------------------------
(* Properties of openApiTypeToZod (checked under SpecSchema) *)

SupportedTypes == {Some("string"), Some("integer"), Some("number"), Some("boolean"),
                   Some("array"), Some("object")}

AnyValue == [z |-> "any"]
OpenMapping == [z |-> "record", key |-> [z |-> "string"], value |-> AnyValue]
EmptyRecord == [z |-> "object", shape |-> <<>>, catchall |-> None]

RECURSIVE wellFormed(_)
\* d is a type descriptor, all its parts type descriptors
wellFormed(d) ==
    CASE d.z \in {"any", "string", "string.datetime", "string.date", "string.base64",
                  "number", "number.int", "boolean"} -> DOMAIN d = {"z"}
      [] d.z = "enum" -> d.values # <<>>
      [] d.z = "array" -> wellFormed(d.element)
      [] d.z = "record" -> d = OpenMapping
      [] d.z = "object" ->
             /\ \A i \in DOMAIN d.shape : wellFormed(d.shape[i].zod)
             /\ IsSome(d.catchall) => wellFormed(Val(d.catchall))
      [] OTHER -> FALSE

\* the type of the schema node handed in, None when it has none
typeIn == IF IsSome(schemaIn) /\ "type" \in DOMAIN Val(schemaIn)
          THEN Val(schemaIn).type ELSE None

\* C14: openApiTypeToZod returns a type descriptor for every schema node; an
\* absent schema, a missing or unrecognized type and a string of format
\* binary give any-value; an array without items or with a $ref for items is
\* an array of any-value; a $ref among the properties of an object makes that
\* property any-value and leaves the other properties their own types.
C14_Total ==
    IsSome(descriptor) =>
        LET d == Val(descriptor)
        IN /\ wellFormed(d)
           /\ typeIn \notin SupportedTypes => d = AnyValue
           /\ (typeIn = Some("string") /\ Val(schemaIn).format = Some("binary")
               /\ Val(schemaIn).enum = None) => d = AnyValue
           /\ (typeIn = Some("array")
               /\ (Val(schemaIn).items = None \/ Val(schemaIn).items = Some(RefObject))) =>
                  d = [z |-> "array", element |-> AnyValue]
           /\ (typeIn = Some("array") /\ Val(schemaIn).items = Some(Schema(Some("string"), None))) =>
                  d = [z |-> "array", element |-> [z |-> "string"]]
           /\ (typeIn = Some("object") /\ IsSome(Val(schemaIn).properties)) =>
                  LET props == Val(Val(schemaIn).properties)
                  IN /\ d.z = "object"
                     /\ Len(d.shape) = Len(props)
                     /\ \A i \in DOMAIN props :
                            /\ d.shape[i].name = props[i].name
                            /\ IsRef(props[i].schema) => d.shape[i].zod = AnyValue
                            /\ props[i].schema = Schema(Some("string"), None) =>
                                   d.shape[i].zod = [z |-> "string"]

\* an object with a $ref property and a string property has been mapped
C14_Witness ==
    /\ IsSome(descriptor)
    /\ typeIn = Some("object")
    /\ IsSome(Val(schemaIn).properties)
    /\ \E i, j \in DOMAIN Val(Val(schemaIn).properties) :
           /\ IsRef(Val(Val(schemaIn).properties)[i].schema)
           /\ Val(descriptor).shape[i].zod = AnyValue
           /\ Val(descriptor).shape[j].zod = [z |-> "string"]

\* the schema node handed in is an object without properties
objectWithoutProperties == typeIn = Some("object") /\ Val(schemaIn).properties = None

\* C15 as stated: an object without properties maps to the open mapping when
\* it has any additionalProperties value, false included, and to the empty
\* record type when it has none.
C15_Original ==
    (IsSome(descriptor) /\ objectWithoutProperties) =>
        Val(descriptor) = IF IsSome(Val(schemaIn).additionalProperties)
                          THEN OpenMapping ELSE EmptyRecord

\* C15 amended: an object without properties maps to the open mapping when
\* additionalProperties is true or an object (a schema, the empty schema or a
\* $ref), and to the empty record type when additionalProperties is absent
\* or false.
C15_ObjectWithoutProperties ==
    (IsSome(descriptor) /\ objectWithoutProperties) =>
        Val(descriptor) = IF Val(schemaIn).additionalProperties \in {None, Some([bool |-> FALSE])}
                          THEN EmptyRecord ELSE OpenMapping

\* additionalProperties: false has been mapped to the empty record type
C15_Witness ==
    /\ IsSome(descriptor)
    /\ objectWithoutProperties
    /\ Val(schemaIn).additionalProperties = Some([bool |-> FALSE])
    /\ Val(descriptor) = EmptyRecord

-----------------------------------------------------------------------------
(* Properties of the SSE bridge (checked under SpecSse) *)

\* C16: a session id is in the table only while its connection is open and
\* its connect has not failed; a POST is handed to a transport only if its
\* sessionId was in the table then, and to that session's transport; a POST
\* whose sessionId is missing or was not in the table is answered 400 and
\* handed to no transport.
C16_SessionTable ==
    /\ \A sessionId \in sseTransports :
           /\ sessionId \in DOMAIN sseConn
           /\ sseConn[sessionId].open
           /\ sseConn[sessionId].connect # "failed"
    /\ IsSome(lastPost) =>
           /\ IsSome(Val(lastPost).delivered) =>
                  /\ Val(lastPost).inTable
                  /\ Val(lastPost).delivered = Val(lastPost).sessionId
           /\ ~Val(lastPost).inTable =>
                  /\ Val(lastPost).status = 400
                  /\ Val(lastPost).delivered = None

=============================================================================
